---- MODULE Spec2Model ----
(***************************************************************************)
(* A model of the two scripts of sage-numerical-backends-cplex:            *)
(*   setup.py                      the build configurator                  *)
(*   check_get_solver_with_name.py the backend identity check              *)
(*                                                                         *)
(* Python strings that the code takes apart or puts together (paths, file  *)
(* names, glob patterns) are sequences of one-character strings, so that   *)
(* fnmatch, os.path.splitext, os.path.join, str.replace and slicing are    *)
(* computed character by character.  Python's None is the value None.      *)
(***************************************************************************)
EXTENDS Integers, Sequences, FiniteSets, TLC

(***************************************************************************)
(* Bounds of the model.                                                    *)
(***************************************************************************)
\* the longest directory listing os.listdir returns
MaxFiles == 2
\* the most command-line arguments after the script name
MaxArgs == 1

(***************************************************************************)
(* String literals.                                                        *)
(***************************************************************************)
None == <<"None">>

s_cplex == <<"c","p","l","e","x">>
s_bin == <<"b","i","n">>
s_include == <<"i","n","c","l","u","d","e">>
s_ilcplex == <<"i","l","c","p","l","e","x">>
s_so == <<"s","o">>
s_dylib == <<"d","y","l","i","b">>
s_osx == <<"_","o","s","x">>
s_linux == <<"_","l","i","n","u","x">>
s_rpath == <<"-","W","l",",","-","r","p","a","t","h",",">>
s_libcplex == <<"l","i","b","c","p","l","e","x">>

\* the characters the model's strings are made of, in ASCII order
Ascii ==
    <<"!","*",",","-",".","/","0","1","2","3","4","5","6","7","8","9",
      "W","[","]","_","a","b","c","d","e","f","g","h","i","j","k","l","m",
      "n","o","p","q","r","s","t","u","v","w","x","y","z">>

Ord(c) == CHOOSE k \in 1..Len(Ascii) : Ascii[k] = c

(***************************************************************************)
(* fnmatch.fnmatch(name, pat) on a POSIX host (os.path.normcase is the     *)
(* identity): '*' matches any run of characters, '?' one character,        *)
(* '[seq]' one character of seq (with ranges a-b and '!' negation), any    *)
(* other character itself; the whole name must match.                      *)
(***************************************************************************)
RECURSIVE ClassHit(_, _, _)
ClassHit(c, items, t) ==
    IF t > Len(items) THEN FALSE
    ELSE IF t + 2 <= Len(items) /\ items[t + 1] = "-"
         THEN (Ord(items[t]) <= Ord(c) /\ Ord(c) <= Ord(items[t + 2]))
              \/ ClassHit(c, items, t + 3)
         ELSE items[t] = c \/ ClassHit(c, items, t + 1)

InClass(c, body) ==
    IF Len(body) > 0 /\ body[1] = "!"
    THEN ~ClassHit(c, Tail(body), 1)
    ELSE ClassHit(c, body, 1)

\* the index of the ']' closing the class opened at pat[j], 0 when there is none
ClassEnd(pat, j) ==
    LET a == IF j + 1 <= Len(pat) /\ pat[j + 1] = "!" THEN j + 2 ELSE j + 1
        b == IF a <= Len(pat) /\ pat[a] = "]" THEN a + 1 ELSE a
        ks == {k \in b..Len(pat) : pat[k] = "]"}
    IN  IF ks = {} THEN 0 ELSE CHOOSE k \in ks : \A m \in ks : k <= m

RECURSIVE GlobFrom(_, _, _, _)
GlobFrom(name, pat, i, j) ==
    IF j > Len(pat) THEN i > Len(name)
    ELSE IF pat[j] = "*"
         THEN GlobFrom(name, pat, i, j + 1)
              \/ (i <= Len(name) /\ GlobFrom(name, pat, i + 1, j))
    ELSE IF pat[j] = "?"
         THEN i <= Len(name) /\ GlobFrom(name, pat, i + 1, j + 1)
    ELSE LET close == IF pat[j] = "[" THEN ClassEnd(pat, j) ELSE 0
         IN  IF close > 0
             THEN /\ i <= Len(name)
                  /\ InClass(name[i], SubSeq(pat, j + 1, close - 1))
                  /\ GlobFrom(name, pat, i + 1, close + 1)
             ELSE /\ i <= Len(name)
                  /\ name[i] = pat[j]
                  /\ GlobFrom(name, pat, i + 1, j + 1)

fnmatch(name, pat) == GlobFrom(name, pat, 1, 1)

(***************************************************************************)
(* os.path.splitext(p)[0] (posixpath): the extension starts at the last    *)
(* dot of the last path component, unless only dots come before it.        *)
(***************************************************************************)
\* the last index of character c in p, 0 when there is none (str.rfind + 1)
RFind(p, c) ==
    LET ks == {k \in 1..Len(p) : p[k] = c}
    IN  IF ks = {} THEN 0 ELSE CHOOSE k \in ks : \A m \in ks : m <= k

splitext_root(p) ==
    LET sepIndex == RFind(p, "/")
        dotIndex == RFind(p, ".")
    IN  IF dotIndex > sepIndex
           /\ \E k \in (sepIndex + 1)..(dotIndex - 1) : p[k] # "."
        THEN SubSeq(p, 1, dotIndex - 1)
        ELSE p

\* the slice s[n:]
SliceFrom(s, n) == SubSeq(s, n + 1, Len(s))

(***************************************************************************)
(* os.path.join (posixpath): an absolute component discards what came      *)
(* before it; otherwise components are joined by one '/', none being added *)
(* after a component that is empty or already ends in '/'.                 *)
(***************************************************************************)
join2(a, b) ==
    IF Len(b) > 0 /\ b[1] = "/" THEN b
    ELSE IF Len(a) = 0 \/ a[Len(a)] = "/" THEN a \o b
    ELSE a \o <<"/">> \o b

RECURSIVE path_join(_, _)
path_join(a, parts) ==
    IF parts = <<>> THEN a ELSE path_join(join2(a, Head(parts)), Tail(parts))

\* str.replace(old, new) for one-character old and new: every occurrence
replace(s, old, new) == [k \in 1..Len(s) |-> IF s[k] = old THEN new ELSE s[k]]

\* a faulty variant: "is not None" in place of the truth value
Truthy_not_none(v) == v # None

\* Python's truth value of os.getenv's result: None and '' are false
Truthy(v) == v # None /\ v # <<>>

(***************************************************************************)
(* The environment the scripts read.                                       *)
(***************************************************************************)
\* os.getenv("CPLEX_HOME"): unset, empty, an installation root, the same
\* root written with a trailing slash
EnvValues == {None, <<>>, <<"/","o","p","t">>, <<"/","o","p","t","/">>}

\* sys.platform, among the hosts on which os.path is posixpath
Platforms == {"darwin", "linux", "cygwin"}

\* platform.machine()
Machines ==
    { <<"x","8","6","_","6","4">>,
      <<"a","r","m","6","4">>,
      <<"i","a","6","4","_","3","2","_","n">> }

\* names os.listdir may return for the vendor library directory
FileNames ==
    { s_libcplex \o <<"1","2","9","0",".","s","o">>,
      s_libcplex \o <<"2","2","1","1",".","d","y","l","i","b">>,
      s_libcplex \o <<"1",".","s","o">>,
      s_libcplex \o <<"1","a","2",".","s","o">>,
      s_libcplex \o <<".","s","o">>,
      s_libcplex \o <<"d","i","s","t","m","i","p","1","2","9","0",".","s","o">>,
      s_cplex \o <<"1","2","9","0",".","s","o">> }

\* a directory listing: distinct names in an arbitrary order
Listings ==
    UNION { {l \in [1..n -> FileNames] : \A i, j \in 1..n : i # j => l[i] # l[j]}
            : n \in 0..MaxFiles }

\* setup.py commands given on the command line
Commands ==
    {"build", "build_ext", "bdist_wheel", "install", "sdist", "build_py"}

ArgLists == UNION { [1..n -> Commands] : n \in 0..MaxArgs }

\* sage.env.sage_include_directories(), an external list of directories
sage_include_directories == << <<"/","s","a","g","e">> >>

\* the classes an object returned by get_solver may be an instance of, each
\* with its base class
Bases ==
    [ object |-> "object",
      GenericBackend |-> "object",
      CPLEXBackend |-> "GenericBackend",
      CPLEXBackendSubclass |-> "CPLEXBackend",
      GLPKBackend |-> "GenericBackend",
      NoneType |-> "object" ]

Types == DOMAIN Bases

(***************************************************************************)
(* setup.py, lines 42-48: the accepted extensions and the platform name.   *)
(***************************************************************************)
exts_of(platform) ==
    IF platform = "darwin" THEN <<s_dylib, s_so>> ELSE <<s_so>>

\* a faulty variant: str.replace('_', '-', 1), only the first underscore
cplex_platform_first_underscore(mach, platform) ==
    LET us == {k \in 1..Len(mach) : mach[k] = "_"}
        first == IF us = {} THEN 0 ELSE CHOOSE k \in us : \A m \in us : k <= m
    IN  [k \in 1..Len(mach) |-> IF k = first THEN "-" ELSE mach[k]]
        \o (IF platform = "darwin" THEN s_osx ELSE s_linux)

cplex_platform_of(mach, platform) ==
    replace(mach, "_", "-") \o (IF platform = "darwin" THEN s_osx ELSE s_linux)

(***************************************************************************)
(* setup.py, lines 56-57: the test of one directory entry and the library  *)
(* name taken from it.                                                     *)
(***************************************************************************)
\* a faulty variant: the pattern 'libcplex[0-9]*.' + ext
lib_pattern_one_digit(ext) ==
    s_libcplex \o <<"[","0","-","9","]","*",".">> \o ext

lib_pattern(ext) ==
    s_libcplex \o <<"[","0","-","9","]","*","[","0","-","9","]",".">> \o ext

matches(file, es) == \E k \in 1..Len(es) : fnmatch(file, lib_pattern(es[k]))

lib_name(file) == SliceFrom(splitext_root(file), 3)

\* a faulty variant: the first match is kept (a loop that stops at a match)
scan_step_first_match(libs, file, es) ==
    IF libs = <<>> /\ \E k \in 1..Len(es) :
                         fnmatch(file, s_libcplex
                                       \o <<"[","0","-","9","]","*","[","0","-","9","]",".">>
                                       \o es[k])
    THEN <<SliceFrom(splitext_root(file), 3)>>
    ELSE libs

\* one iteration of the loop of line 55: the value of cplex_libs after it
scan_step(libs, file, es) ==
    IF matches(file, es) THEN <<lib_name(file)>> ELSE libs

(***************************************************************************)
(* setup.py, lines 59-65: the diagnostic written and the libraries kept.   *)
(***************************************************************************)
Advisory == [kind |-> "advisory"]

UsingMessage(inc, libs, dirs) ==
    [kind |-> "using", cplex_include_directories |-> inc,
     libraries |-> libs, library_dirs |-> dirs]

\* a faulty variant: the advisory is printed but the fallback is not set
link_report_no_fallback(inc, libs, dirs) ==
    IF libs = <<>>
    THEN [msg |-> Advisory, libs |-> libs]
    ELSE [msg |-> UsingMessage(inc, libs, dirs), libs |-> libs]

link_report(inc, libs, dirs) ==
    IF libs = <<>>
    THEN [msg |-> Advisory, libs |-> <<s_cplex>>]
    ELSE [msg |-> UsingMessage(inc, libs, dirs), libs |-> libs]

(***************************************************************************)
(* setup.py, lines 68-75: the extension module.                            *)
(***************************************************************************)
rpath_args(dirs) == [k \in 1..Len(dirs) |-> s_rpath \o dirs[k]]

PyxSource == "sage_numerical_backends_cplex/cplex_backend.pyx"
CSource == "sage_numerical_backends_cplex/cplex_backend.c"

\* a faulty variant: the directories are passed only with a discovered library
Extension_dirs_if_found(inc, libs, dirs) ==
    LET found == libs # <<s_cplex>>
    IN  [name |-> "sage_numerical_backends_cplex.cplex_backend",
         sources |-> <<PyxSource>>,
         include_dirs |-> sage_include_directories \o (IF found THEN inc ELSE <<>>),
         libraries |-> libs,
         library_dirs |-> IF found THEN dirs ELSE <<>>,
         extra_link_args |-> rpath_args(IF found THEN dirs ELSE <<>>)]

Extension(inc, libs, dirs) ==
    [name |-> "sage_numerical_backends_cplex.cplex_backend",
     sources |-> <<PyxSource>>,
     include_dirs |-> sage_include_directories \o inc,
     libraries |-> libs,
     library_dirs |-> dirs,
     extra_link_args |-> rpath_args(dirs)]

(***************************************************************************)
(* setup.py, lines 77-84: cythonize on a build command.                    *)
(***************************************************************************)
compile_time_env ==
    [HAVE_SAGE_CPYTHON_STRING |-> TRUE, HAVE_ADD_COL_UNTYPED_ARGS |-> TRUE]

BuildCommands == {"build", "build_ext", "bdist_wheel", "install"}

\* a faulty variant: a substring test, any('build' in x ...), which build_py passes
any_build_command_substring(argv) ==
    \E k \in 1..Len(argv) : argv[k] \in BuildCommands \cup {"build_py"}

any_build_command(argv) ==
    \E x \in BuildCommands : \E k \in 1..Len(argv) : argv[k] = x

\* Cython.Build.cythonize: each module's .pyx source is compiled to a .c
\* source; the link settings are kept
cythonize(mods) ==
    [k \in 1..Len(mods) |-> [mods[k] EXCEPT !.sources = <<CSource>>]]

(***************************************************************************)
(* check_get_solver_with_name.py, line 6: the asserted condition.          *)
(***************************************************************************)
\* t is u or a class derived from u
RECURSIVE IsSubclass(_, _)
IsSubclass(t, u) ==
    t = u \/ (Bases[t] # t /\ IsSubclass(Bases[t], u))

\* a faulty variant: isinstance(b, CPLEXBackend)
type_check_isinstance(obj) == IsSubclass(obj.type, "CPLEXBackend")

type_check(obj) == obj.type = "CPLEXBackend"

AssertMessage ==
    "get_solver(solver='cplex') does not give an instance of sage_numerical_backends_cplex.cplex_backend.CPLEXBackend"

Unbound == [type |-> "unbound"]

(***************************************************************************)
(* State.  A run executes one of the two scripts from its first line to    *)
(* its last, or to an uncaught exception.                                  *)
(***************************************************************************)
VARIABLES
    script,                     \* the script this run executes
    pc,                         \* the statement about to run
    exception,                  \* the uncaught exception that ended the run:
                                \* <<>>, or its class and arguments
    \* setup.py: what it reads from its environment
    sys_platform, platform_machine, sys_argv,
    \* setup.py: its module-level variables
    cplex_include_directories, cplex_lib_directories, cplex_libs, cplex_home,
    exts, machine, cplex_platform, libdir, ext_modules,
    files, idx,                 \* os.listdir's result and the entries consumed
    \* setup.py: what it does to its environment
    listdir_calls,              \* the directories passed to os.listdir
    stderr,                     \* the messages printed to sys.stderr
    cythonize_calls,            \* the compile_time_env of each cythonize call
    setup_calls,                \* the ext_modules of each setup() call
    \* check_get_solver_with_name.py
    b,                          \* the object returned by get_solver
    get_solver_calls,           \* the solver argument of each get_solver call
    stdout                      \* the messages printed to sys.stdout

env_vars == <<sys_platform, platform_machine, sys_argv>>
setup_vars ==
    <<cplex_include_directories, cplex_lib_directories, cplex_libs, cplex_home,
      exts, machine, cplex_platform, libdir, ext_modules, files, idx>>
effect_vars == <<listdir_calls, stderr, cythonize_calls, setup_calls>>
check_vars == <<b, get_solver_calls, stdout>>

vars == <<script, pc, exception, env_vars, setup_vars, effect_vars, check_vars>>

Init ==
    /\ script \in {"setup.py", "check_get_solver_with_name.py"}
    /\ pc = IF script = "setup.py" THEN "globals" ELSE "import"
    /\ exception = <<>>
    /\ sys_platform = "unread" /\ platform_machine = None /\ sys_argv = <<>>
    /\ cplex_include_directories = <<>>
    /\ cplex_lib_directories = <<>>
    /\ cplex_libs = <<>>
    /\ cplex_home = None
    /\ exts = <<>> /\ machine = None /\ cplex_platform = None /\ libdir = None
    /\ ext_modules = <<>>
    /\ files = <<>> /\ idx = 0
    /\ listdir_calls = <<>> /\ stderr = <<>>
    /\ cythonize_calls = <<>> /\ setup_calls = <<>>
    /\ b = Unbound /\ get_solver_calls = <<>> /\ stdout = <<>>

(***************************************************************************)
(* setup.py                                                                *)
(***************************************************************************)
\* lines 37-40
ReadGlobals ==
    /\ pc = "globals"
    /\ cplex_include_directories' = <<>>
    /\ cplex_lib_directories' = <<>>
    /\ cplex_libs' = <<>>
    /\ \E h \in EnvValues : cplex_home' = h
    /\ pc' = "platform"
    /\ UNCHANGED <<script, exception, env_vars, exts, machine, cplex_platform, libdir,
                   ext_modules, files, idx, effect_vars, check_vars>>

\* lines 42-48
DetectPlatform ==
    /\ pc = "platform"
    /\ \E m \in Machines, p \in Platforms :
          /\ platform_machine' = m
          /\ sys_platform' = p
          /\ machine' = replace(m, "_", "-")
          /\ cplex_platform' = cplex_platform_of(m, p)
          /\ exts' = exts_of(p)
    /\ pc' = "home"
    /\ UNCHANGED <<script, exception, sys_argv, cplex_include_directories,
                   cplex_lib_directories, cplex_libs, cplex_home, libdir,
                   ext_modules, files, idx, effect_vars, check_vars>>

\* lines 50-53, CPLEX_HOME set
HomeSet ==
    /\ pc = "home"
    /\ Truthy(cplex_home)
    /\ cplex_include_directories' =
          Append(cplex_include_directories,
                 path_join(cplex_home, <<s_cplex, s_include, s_ilcplex>>))
    /\ libdir' = path_join(cplex_home, <<s_cplex, s_bin, cplex_platform>>)
    /\ cplex_lib_directories' = Append(cplex_lib_directories, libdir')
    /\ pc' = "listdir"
    /\ UNCHANGED <<script, exception, env_vars, cplex_libs, cplex_home, exts, machine,
                   cplex_platform, ext_modules, files, idx, effect_vars,
                   check_vars>>

\* line 50, CPLEX_HOME unset or empty
HomeUnset ==
    /\ pc = "home"
    /\ ~Truthy(cplex_home)
    /\ pc' = "report"
    /\ UNCHANGED <<script, exception, env_vars, setup_vars, effect_vars, check_vars>>

\* line 55, os.listdir(libdir) of a directory
ListDir ==
    /\ pc = "listdir"
    /\ listdir_calls' = Append(listdir_calls, libdir)
    /\ \E l \in Listings : files' = l
    /\ idx' = 0
    /\ pc' = "scan"
    /\ UNCHANGED <<script, exception, env_vars, cplex_include_directories,
                   cplex_lib_directories, cplex_libs, cplex_home, exts, machine,
                   cplex_platform, libdir, ext_modules, stderr, cythonize_calls,
                   setup_calls, check_vars>>

\* line 55, os.listdir(libdir) of a path that does not exist or is no
\* directory: the OSError is not caught
ListDirRaises ==
    /\ pc = "listdir"
    /\ listdir_calls' = Append(listdir_calls, libdir)
    /\ \E e \in {"FileNotFoundError", "NotADirectoryError"} : exception' = <<e>>
    /\ pc' = "raised"
    /\ UNCHANGED <<script, env_vars, setup_vars, stderr, cythonize_calls, setup_calls,
                   check_vars>>

\* lines 55-57, one iteration of the loop
ScanFile ==
    /\ pc = "scan"
    /\ idx < Len(files)
    /\ cplex_libs' = scan_step(cplex_libs, files[idx + 1], exts)
    /\ idx' = idx + 1
    /\ UNCHANGED <<script, pc, exception, env_vars, cplex_include_directories,
                   cplex_lib_directories, cplex_home, exts, machine,
                   cplex_platform, libdir, ext_modules, files, effect_vars,
                   check_vars>>

\* line 55, the listing is exhausted
ScanEnd ==
    /\ pc = "scan"
    /\ idx = Len(files)
    /\ pc' = "report"
    /\ UNCHANGED <<script, exception, env_vars, setup_vars, effect_vars, check_vars>>

\* lines 59-65
Report ==
    /\ pc = "report"
    /\ LET r == link_report(cplex_include_directories, cplex_libs,
                            cplex_lib_directories)
       IN  /\ stderr' = Append(stderr, r.msg)
           /\ cplex_libs' = r.libs
    /\ pc' = "extension"
    /\ UNCHANGED <<script, exception, env_vars, cplex_include_directories,
                   cplex_lib_directories, cplex_home, exts, machine,
                   cplex_platform, libdir, ext_modules, files, idx,
                   listdir_calls, cythonize_calls, setup_calls, check_vars>>

\* lines 68-79
DeclareExtension ==
    /\ pc = "extension"
    /\ ext_modules' = <<Extension(cplex_include_directories, cplex_libs,
                                  cplex_lib_directories)>>
    /\ stderr' = Append(stderr, [kind |-> "compile_time_env",
                                 env |-> compile_time_env])
    /\ pc' = "cythonize"
    /\ UNCHANGED <<script, exception, env_vars, cplex_include_directories,
                   cplex_lib_directories, cplex_libs, cplex_home, exts, machine,
                   cplex_platform, libdir, files, idx, listdir_calls,
                   cythonize_calls, setup_calls, check_vars>>

\* lines 81-120, a build command is among the arguments: setup() is called
\* with the cythonized extension
CythonizeSetup ==
    /\ pc = "cythonize"
    /\ \E args \in ArgLists :
          /\ sys_argv' = <<"setup.py">> \o args
          /\ any_build_command(sys_argv')
    /\ ext_modules' = cythonize(ext_modules)
    /\ cythonize_calls' = Append(cythonize_calls, compile_time_env)
    /\ setup_calls' = Append(setup_calls, ext_modules')
    /\ pc' = "done"
    /\ UNCHANGED <<script, exception, sys_platform, platform_machine,
                   cplex_include_directories, cplex_lib_directories, cplex_libs,
                   cplex_home, exts, machine, cplex_platform, libdir, files, idx,
                   listdir_calls, stderr, check_vars>>

\* lines 81-120, no build command is among the arguments: setup() is called
\* with the extension as declared
PlainSetup ==
    /\ pc = "cythonize"
    /\ \E args \in ArgLists :
          /\ sys_argv' = <<"setup.py">> \o args
          /\ ~any_build_command(sys_argv')
    /\ setup_calls' = Append(setup_calls, ext_modules)
    /\ pc' = "done"
    /\ UNCHANGED <<script, exception, sys_platform, platform_machine, setup_vars,
                   listdir_calls, stderr, cythonize_calls, check_vars>>

(***************************************************************************)
(* check_get_solver_with_name.py                                           *)
(***************************************************************************)
\* lines 3-4
Import ==
    /\ pc = "import"
    /\ pc' = "get_solver"
    /\ UNCHANGED <<script, exception, env_vars, setup_vars, effect_vars, check_vars>>

\* lines 3-4, sage or the backend module is not installed
ImportRaises ==
    /\ pc = "import"
    /\ exception' = <<"ImportError">>
    /\ pc' = "raised"
    /\ UNCHANGED <<script, env_vars, setup_vars, effect_vars, check_vars>>

\* line 5: the factory returns an object of some class
GetSolver ==
    /\ pc = "get_solver"
    /\ get_solver_calls' = Append(get_solver_calls, [solver |-> "cplex"])
    /\ \E t \in Types : b' = [type |-> t]
    /\ pc' = "assert"
    /\ UNCHANGED <<script, exception, env_vars, setup_vars, effect_vars, stdout>>

\* line 5: the factory raises
GetSolverRaises ==
    /\ pc = "get_solver"
    /\ get_solver_calls' = Append(get_solver_calls, [solver |-> "cplex"])
    /\ \E e \in {"ValueError", "ImportError"} : exception' = <<e>>
    /\ pc' = "raised"
    /\ UNCHANGED <<script, env_vars, setup_vars, effect_vars, b, stdout>>

\* a faulty variant: the assert statement has no effect
AssertStmtStripped ==
    /\ pc = "assert"
    /\ pc' = "print"
    /\ UNCHANGED <<script, exception, env_vars, setup_vars, effect_vars,
                   check_vars>>

\* line 6
AssertStmt ==
    /\ pc = "assert"
    /\ IF type_check(b)
       THEN pc' = "print" /\ exception' = exception
       ELSE pc' = "raised" /\ exception' = <<"AssertionError", AssertMessage>>
    /\ UNCHANGED <<script, env_vars, setup_vars, effect_vars, check_vars>>

\* line 7
PrintSuccess ==
    /\ pc = "print"
    /\ stdout' = Append(stdout, [kind |-> "Success", b |-> b])
    /\ pc' = "done"
    /\ UNCHANGED <<script, exception, env_vars, setup_vars, effect_vars, b,
                   get_solver_calls>>

Next ==
    \/ ReadGlobals
    \/ DetectPlatform
    \/ HomeSet
    \/ HomeUnset
    \/ ListDir
    \/ ListDirRaises
    \/ ScanFile
    \/ ScanEnd
    \/ Report
    \/ DeclareExtension
    \/ CythonizeSetup
    \/ PlainSetup
    \/ Import
    \/ ImportRaises
    \/ GetSolver
    \/ GetSolverRaises
    \/ AssertStmt
    \/ PrintSuccess

Spec == Init /\ [][Next]_vars

(***************************************************************************)
(* Properties.                                                             *)
(***************************************************************************)
SetupRun == script = "setup.py"
CheckRun == script = "check_get_solver_with_name.py"

\* the run has ended, normally or by an uncaught exception
Ended == pc \in {"done", "raised"}

\* the success message of the identity check has been printed
SuccessPrinted == \E k \in 1..Len(stdout) : stdout[k].kind = "Success"

\* C1: the identity check calls get_solver at most once, always with
\* solver='cplex', exactly once in every run in which an object was returned;
\* such a run prints its success message if and only if the object's
\* type is CPLEXBackend itself, so that an instance of a base class, of a
\* derived class or of an unrelated class does not pass.
C1_FactoryIdentity ==
    CheckRun =>
        /\ Len(get_solver_calls) <= 1
        /\ \A k \in 1..Len(get_solver_calls) :
              get_solver_calls[k] = [solver |-> "cplex"]
        /\ b # Unbound => Len(get_solver_calls) = 1
        /\ SuccessPrinted => b # Unbound /\ b.type = "CPLEXBackend"
        /\ (b # Unbound /\ Ended) =>
              (SuccessPrinted <=> b.type = "CPLEXBackend")
        /\ (b # Unbound /\ Ended /\ b.type # "CPLEXBackend") =>
              pc = "raised"

\* an instance of a class derived from CPLEXBackend was returned and the
\* check ended without its success message
C1_Witness ==
    /\ CheckRun /\ Ended
    /\ b = [type |-> "CPLEXBackendSubclass"]
    /\ Len(get_solver_calls) = 1
    /\ ~SuccessPrinted

\* C2: once get_solver has returned an object whose type is not
\* CPLEXBackend and the assert statement has run, the run has ended with an
\* AssertionError carrying the descriptive message, nothing can follow,
\* the success message has not been printed and get_solver has been called
\* once only.
C2_MismatchAborts ==
    (CheckRun /\ b # Unbound /\ b.type # "CPLEXBackend" /\ pc # "assert") =>
        /\ pc = "raised"
        /\ exception = <<"AssertionError", AssertMessage>>
        /\ stdout = <<>>
        /\ Len(get_solver_calls) = 1
        /\ ~ENABLED Next

\* an instance of an unrelated backend class was returned and the assertion
\* failed
C2_Witness ==
    /\ CheckRun /\ pc = "raised"
    /\ b = [type |-> "GLPKBackend"]
    /\ exception = <<"AssertionError", AssertMessage>>

\* the configurator has passed the test of CPLEX_HOME (line 50)
PastHome == SetupRun /\ pc \notin {"globals", "platform", "home"}

\* the configurator has passed the report of lines 59-65
PastReport == SetupRun /\ pc \in {"extension", "cythonize", "done"}

\* the two link diagnostics among the messages on stderr
IsLinkDiagnostic(m) == m.kind \in {"advisory", "using"}
LinkDiagnostics == SelectSeq(stderr, IsLinkDiagnostic)

HomeAbsent == cplex_home = None \/ cplex_home = <<>>

\* C3: with CPLEX_HOME unset or empty no directory is ever listed and the
\* CPLEX include and library directory lists stay empty; from the report
\* on, the libraries are exactly ['cplex'] and the advisory is on stderr;
\* the extension is declared with libraries ['cplex'], no library
\* directory, no rpath argument and only Sage's include directories.
C3_AbsentHomeGenericLink ==
    (SetupRun /\ pc # "globals" /\ HomeAbsent) =>
        /\ pc # "raised"
        /\ listdir_calls = <<>>
        /\ cplex_include_directories = <<>>
        /\ cplex_lib_directories = <<>>
        /\ PastReport =>
              /\ cplex_libs = <<s_cplex>>
              /\ LinkDiagnostics = <<Advisory>>
        /\ \A k \in 1..Len(ext_modules) :
              /\ ext_modules[k].libraries = <<s_cplex>>
              /\ ext_modules[k].library_dirs = <<>>
              /\ ext_modules[k].extra_link_args = <<>>
              /\ ext_modules[k].include_dirs = sage_include_directories

\* a completed run with CPLEX_HOME set to the empty string
C3_Witness ==
    /\ SetupRun /\ pc = "done"
    /\ cplex_home = <<>>
    /\ Len(setup_calls) = 1
    /\ setup_calls[1][1].libraries = <<s_cplex>>

\* C4: whatever CPLEX_HOME and the file system hold, the configurator never
\* ends with an uncaught exception: it goes on to the report and, with no
\* library found, to the fallback ['cplex'] and the advisory.
C4_LocateFailureNotFatal ==
    SetupRun =>
        /\ pc # "raised"
        /\ exception = <<>>

(***************************************************************************)
(* Strings and paths, as the properties speak of them.                     *)
(***************************************************************************)
IsDigit(c) == c \in {"0","1","2","3","4","5","6","7","8","9"}

HasPrefix(s, p) == Len(p) <= Len(s) /\ SubSeq(s, 1, Len(p)) = p

HasSuffix(s, p) ==
    Len(p) <= Len(s) /\ SubSeq(s, Len(s) - Len(p) + 1, Len(s)) = p

\* the components of a path: its maximal runs of characters other than '/'
RECURSIVE Components(_)
Components(p) ==
    IF p = <<>> THEN <<>>
    ELSE IF Head(p) = "/" THEN Components(Tail(p))
    ELSE LET seps == {k \in 1..Len(p) : p[k] = "/"}
             n == IF seps = {} THEN Len(p) + 1
                  ELSE CHOOSE k \in seps : \A m \in seps : k <= m
         IN  <<SubSeq(p, 1, n - 1)>> \o Components(SubSeq(p, n, Len(p)))

\* path p names the entry `below` (a list of components) under directory root
IsUnder(p, root, below) ==
    /\ Components(p) = Components(root) \o below
    /\ (p[1] = "/") <=> (root[1] = "/")

\* C5: once the platform is known, cplex_platform is platform.machine()
\* with every underscore replaced by a hyphen, followed by '_osx' on darwin
\* and by '_linux' on every other platform, and the accepted extensions
\* are dylib and so on darwin and so alone elsewhere; with CPLEX_HOME set,
\* the one library directory is <CPLEX_HOME>/cplex/bin/<cplex_platform> and
\* the one include directory is <CPLEX_HOME>/cplex/include/ilcplex; on a
\* platform other than darwin a library name is only ever taken from a
\* listed .so file, never from a .dylib file.
C5_VendorPaths ==
    (SetupRun /\ pc \notin {"globals", "platform"}) =>
        LET suffix == IF sys_platform = "darwin" THEN s_osx ELSE s_linux
        IN
        /\ Len(cplex_platform) = Len(platform_machine) + Len(suffix)
        /\ HasSuffix(cplex_platform, suffix)
        /\ \A k \in 1..Len(platform_machine) :
              cplex_platform[k] =
                 (IF platform_machine[k] = "_" THEN "-" ELSE platform_machine[k])
        /\ {exts[k] : k \in 1..Len(exts)} =
              (IF sys_platform = "darwin" THEN {s_dylib, s_so} ELSE {s_so})
        /\ (PastHome /\ ~HomeAbsent) =>
              /\ IsUnder(libdir, cplex_home, <<s_cplex, s_bin, cplex_platform>>)
              /\ cplex_lib_directories = <<libdir>>
              /\ Len(cplex_include_directories) = 1
              /\ IsUnder(cplex_include_directories[1], cplex_home,
                         <<s_cplex, s_include, s_ilcplex>>)
              /\ \A k \in 1..Len(listdir_calls) : listdir_calls[k] = libdir
        /\ (sys_platform # "darwin" /\ pc \in {"scan", "report"}
               /\ cplex_libs # <<>>) =>
              \E k \in 1..idx :
                 /\ files[k] = <<"l","i","b">> \o cplex_libs[1] \o <<".">> \o s_so
                 /\ ~HasSuffix(files[k], <<".">> \o s_dylib)

\* on linux, with a machine name of two underscores and CPLEX_HOME set, a
\* matching-looking .dylib file has been passed over
C5_Witness ==
    /\ SetupRun /\ pc = "scan" /\ idx = 1
    /\ sys_platform = "linux"
    /\ platform_machine = <<"i","a","6","4","_","3","2","_","n">>
    /\ cplex_platform = <<"i","a","6","4","-","3","2","-","n","_","l","i","n","u","x">>
    /\ HasSuffix(files[1], <<".">> \o s_dylib)
    /\ cplex_libs = <<>>
    /\ libdir = <<"/","o","p","t","/">> \o s_cplex \o <<"/">> \o s_bin
                   \o <<"/">> \o cplex_platform

(***************************************************************************)
(* The forms of a library file name.                                       *)
(***************************************************************************)
\* f is 'libcplex' + v + '.' + e for a non-empty v, and e is the k-th
\* accepted extension
HasLibForm(f, es, k) ==
    /\ HasPrefix(f, s_libcplex)
    /\ HasSuffix(f, <<".">> \o es[k])
    /\ Len(f) > Len(s_libcplex) + 1 + Len(es[k])

\* the v of such a name
VersionOf(f, es, k) ==
    SubSeq(f, Len(s_libcplex) + 1, Len(f) - Len(es[k]) - 1)

\* libcplex<version>.<ext> with a non-empty version made of digits only
NumericForm(f, es) ==
    \E k \in 1..Len(es) :
        /\ HasLibForm(f, es, k)
        /\ \A t \in 1..Len(VersionOf(f, es, k)) : IsDigit(VersionOf(f, es, k)[t])

\* libcplex<v>.<ext> with v of two characters or more, the first and the
\* last of them digits
DigitBoundedForm(f, es) ==
    \E k \in 1..Len(es) :
        /\ HasLibForm(f, es, k)
        /\ Len(VersionOf(f, es, k)) >= 2
        /\ IsDigit(VersionOf(f, es, k)[1])
        /\ IsDigit(VersionOf(f, es, k)[Len(VersionOf(f, es, k))])

\* the lists of accepted extensions
ExtLists == {exts_of(p) : p \in Platforms}

\* the two forms, tabulated over the file names and extension lists
NumericFormTable ==
    [f \in FileNames, es \in ExtLists |-> NumericForm(f, es)]
DigitBoundedFormTable ==
    [f \in FileNames, es \in ExtLists |-> DigitBoundedForm(f, es)]

\* the entries consumed so far that have the numeric form
NumericSeen == {k \in 1..idx : NumericFormTable[files[k], exts]}
\* the entries consumed so far that have the digit-bounded form
DigitBoundedSeen == {k \in 1..idx : DigitBoundedFormTable[files[k], exts]}

Last(S) == CHOOSE k \in S : \A m \in S : m <= k

\* cplex_libs holds exactly the name taken from file f: f without its
\* leading 'lib' and its final '.<ext>', a name 'cplex<v>' other than 'cplex'
HoldsNameOf(f) ==
    /\ Len(cplex_libs) = 1
    /\ \E k \in 1..Len(exts) :
          <<"l","i","b">> \o cplex_libs[1] \o <<".">> \o exts[k] = f
    /\ HasPrefix(cplex_libs[1], s_cplex)
    /\ cplex_libs[1] # s_cplex

\* C6 as stated: throughout the scan of the directory, cplex_libs holds the
\* name taken from the last entry of the form libcplex<version>.<ext>
\* with a non-empty numeric version and an accepted extension, and is empty
\* when no entry consumed so far has that form.
C6_NumericFormSelected ==
    (SetupRun /\ pc = "scan") =>
        IF NumericSeen = {} THEN cplex_libs = <<>>
        ELSE /\ HoldsNameOf(files[Last(NumericSeen)])
             /\ \A t \in (Len(s_cplex) + 1)..Len(cplex_libs[1]) :
                   IsDigit(cplex_libs[1][t])

\* C6 as amended: throughout the scan of the directory, cplex_libs holds
\* the name taken from the last entry of the form libcplex<v>.<ext> where
\* <ext> is an accepted extension and <v> has at least two characters, the
\* first and the last being digits; it is empty when no entry consumed so
\* far has that form.  The name is the file name without its leading 'lib'
\* and its final '.<ext>', it is 'cplex<v>' and never the bare 'cplex'.
C6_DigitBoundedFormSelected ==
    (SetupRun /\ pc = "scan") =>
        IF DigitBoundedSeen = {} THEN cplex_libs = <<>>
        ELSE /\ HoldsNameOf(files[Last(DigitBoundedSeen)])
             /\ IsDigit(cplex_libs[1][Len(s_cplex) + 1])
             /\ IsDigit(cplex_libs[1][Len(cplex_libs[1])])

\* a one-digit version was passed over after a version that is not numeric
\* was taken
C6_Witness ==
    /\ SetupRun /\ pc = "scan" /\ idx = 2
    /\ files[1] = s_libcplex \o <<"1","a","2",".","s","o">>
    /\ files[2] = s_libcplex \o <<"1",".","s","o">>
    /\ cplex_libs = <<s_cplex \o <<"1","a","2">>>>

(***************************************************************************)
(* The outcome of the discovery.                                           *)
(***************************************************************************)
\* a file name without its leading 'lib' and its last '.<ext>', tabulated
\* over the file names
StemTable == [f \in FileNames |-> SubSeq(f, 4, RFind(f, ".") - 1)]

\* the entries of the listing that are versioned CPLEX libraries: of the
\* digit-bounded form
Matching == {k \in 1..Len(files) : DigitBoundedFormTable[files[k], exts]}

\* a versioned library was discovered
Discovered == ~HomeAbsent /\ Matching # {}

\* C7: after the report exactly one of the two link diagnostics is on
\* stderr.  It is the advisory if and only if no versioned library was
\* discovered, and then the libraries are the generic ['cplex']; otherwise
\* it is the 'Using ...' message naming the include directories, libraries
\* and library directories, and the libraries hold the name taken from a
\* versioned library in the listing.
C7_OneLinkDiagnostic ==
    PastReport =>
        /\ Len(LinkDiagnostics) = 1
        /\ LinkDiagnostics[1].kind = "advisory" <=> ~Discovered
        /\ ~Discovered => cplex_libs = <<s_cplex>>
        /\ Discovered =>
              /\ LinkDiagnostics[1] =
                    UsingMessage(cplex_include_directories, cplex_libs,
                                 cplex_lib_directories)
              /\ cplex_libs # <<s_cplex>>
              /\ \E k \in Matching : cplex_libs = <<StemTable[files[k]]>>

\* CPLEX_HOME is set and its library directory holds files, none of them
\* matching: the run completes with the fallback and the advisory
C7_Witness ==
    /\ SetupRun /\ pc = "done"
    /\ ~HomeAbsent
    /\ Len(files) > 0 /\ Matching = {}
    /\ LinkDiagnostics = <<Advisory>>
    /\ cplex_libs = <<s_cplex>>

\* C8: the declared extension links exactly one library; when entries of
\* the listing match, it is the name taken from the last matching entry in
\* listing order.
C8_LastMatchWins ==
    (SetupRun /\ ext_modules # <<>>) =>
        /\ Len(ext_modules[1].libraries) = 1
        /\ \A k \in 1..Len(files) :
              (/\ ~HomeAbsent
               /\ k \in Matching
               /\ \A j \in (k + 1)..Len(files) : j \notin Matching)
              => ext_modules[1].libraries = <<StemTable[files[k]]>>

\* on darwin the listing returns the newer .dylib before the older .so and
\* the extension links the older .so
C8_Witness ==
    /\ SetupRun /\ ext_modules # <<>>
    /\ sys_platform = "darwin"
    /\ files = << s_libcplex \o <<"2","2","1","1",".","d","y","l","i","b">>,
                  s_libcplex \o <<"1","2","9","0",".","s","o">> >>
    /\ ext_modules[1].libraries = <<s_cplex \o <<"1","2","9","0">>>>

\* C9: the declared extension has one '-Wl,-rpath,<dir>' argument per
\* library directory, in the same order; with CPLEX_HOME set its library
\* directory and its CPLEX include directory are those derived from
\* CPLEX_HOME whether or not a library was discovered, and with CPLEX_HOME
\* absent it has neither.
C9_DirectoriesFollowHome ==
    (SetupRun /\ ext_modules # <<>>) =>
        LET e == ext_modules[1]
        IN  /\ Len(e.extra_link_args) = Len(e.library_dirs)
            /\ \A k \in 1..Len(e.library_dirs) :
                  e.extra_link_args[k] = s_rpath \o e.library_dirs[k]
            /\ ~HomeAbsent =>
                  /\ e.library_dirs = <<libdir>>
                  /\ IsUnder(libdir, cplex_home,
                             <<s_cplex, s_bin, cplex_platform>>)
                  /\ Len(e.include_dirs) = Len(sage_include_directories) + 1
                  /\ IsUnder(e.include_dirs[Len(e.include_dirs)], cplex_home,
                             <<s_cplex, s_include, s_ilcplex>>)
            /\ HomeAbsent =>
                  /\ e.library_dirs = <<>>
                  /\ e.include_dirs = sage_include_directories

\* CPLEX_HOME is set, nothing matched, and the extension is declared with
\* the generic library and the CPLEX_HOME-derived directory and rpath
C9_Witness ==
    /\ SetupRun /\ ext_modules # <<>>
    /\ ~HomeAbsent /\ Matching = {}
    /\ ext_modules[1].libraries = <<s_cplex>>
    /\ ext_modules[1].library_dirs = <<libdir>>
    /\ ext_modules[1].extra_link_args = <<s_rpath \o libdir>>

\* the arguments on the command line
Arguments == {sys_argv[k] : k \in 1..Len(sys_argv)}

\* the libraries the discovery of lines 50-62 ends with
DiscoveryResult ==
    IF Discovered THEN <<StemTable[files[Last(Matching)]]>> ELSE <<s_cplex>>

====
